---- MODULE Spec2Model ----
(***************************************************************************)
(* chkmd: extraction of the references of Markdown documents               *)
(* (chkmd/checker.py extract_links, extract_links_from_file), their        *)
(* verification (check_links, check_single_link, check_http_link,          *)
(* check_local_link) and the command line driver (chkmd/cli.py main_async).*)
(*                                                                         *)
(* A reference string is a sequence of tokens, each token standing for a   *)
(* substring of the string: "file:///a/img.png" is                         *)
(* <<"file", ":", "//", "/", "a", "/", "img.png">>.  A path is the         *)
(* sequence of its components under the root: /a/img.png is                *)
(* <<"a", "img.png">>.  All tokens are lower case, no symbolic links.      *)
(***************************************************************************)
EXTENDS Integers, Sequences, FiniteSets, TLC

(* ------------------------------ bounds --------------------------------- *)

\* most paths on the command line
MaxPaths == 2

\* most a[@href] and img[@src] nodes over all the documents together
MaxRefs == 2

\* number of remote references of the connection-pool specification
NumRemote == 52

(* ------------------------- program constants --------------------------- *)

\* TCPConnector(limit=50)
limit == 50

\* ClientTimeout(total=10)
total == 10

(* ----------------------------- references ------------------------------ *)

RefHttp == <<"http", ":", "//", "host">>

RefHttps == <<"https", ":", "//", "host">>

RefRel == <<".", "/", "img.png">>

RefFile == <<"file", ":", "//", "/", "a", "/", "img.png">>

RefFtp == <<"ftp", ":", "//", "host", "/", "file">>

RefBad == <<"ftp", ":", "//", "[", "host">>

\* the href values a document may carry
Hrefs == {RefHttp, RefHttps, RefRel, RefFile, RefFtp, RefBad}

\* the src values a document may carry
Srcs == {RefRel}

\* tokens that start with a letter and consist of scheme characters
NameTokens == {"http", "https", "file", "ftp", "host", "a", "c", "img.png", "ok"}

(* ------------------------------ documents ------------------------------ *)

DocB == <<"a", "b.md">>

DocD == <<"a", "c", "d.md">>

Docs == {DocB, DocD}

FileA == <<"a", "img.png">>

FileC == <<"a", "c", "img.png">>

\* the files other than the documents that may exist
Candidates == {FileA, FileC}

(* ------------------------------ sequences ------------------------------ *)

Range(s) == {s[i] : i \in 1..Len(s)}

RECURSIVE SetOrders(_)
\* every order in which the iteration of a Python set can yield its elements
SetOrders(S) ==
    IF S = {} THEN {<<>>}
    ELSE UNION {{<<x>> \o t : t \in SetOrders(S \ {x})} : x \in S}

SeqsUpTo(S, n) == UNION {[1..k -> S] : k \in 0..n}

(* ------------------------------- urlparse ------------------------------ *)

\* str.startswith
StartsWith(s, p) == Len(s) >= Len(p) /\ SubSeq(s, 1, Len(p)) = p

\* url[len(p):]
Drop(s, n) == SubSeq(s, n + 1, Len(s))

\* urlsplit: a scheme is the text before the first ":" when it starts with a
\* letter and holds scheme characters only (one token holds a whole such text)
HasScheme(url) == Len(url) >= 2 /\ url[2] = ":" /\ url[1] \in NameTokens

AfterScheme(url) == IF HasScheme(url) THEN Drop(url, 2) ELSE url

RECURSIVE TakeUntilSlash(_)
TakeUntilSlash(s) ==
    IF s = <<>> \/ s[1] = "/" THEN <<>>
    ELSE <<s[1]>> \o TakeUntilSlash(Tail(s))

\* urlsplit: the network location follows a leading "//"
Netloc(url) ==
    LET rest == AfterScheme(url)
    IN  IF rest # <<>> /\ rest[1] = "//" THEN TakeUntilSlash(Tail(rest)) ELSE <<>>

\* urlsplit raises ValueError("Invalid IPv6 URL") on an unbalanced bracket
UrlparseRaises(url) ==
    LET n == Range(Netloc(url))
    IN  ("[" \in n /\ "]" \notin n) \/ ("]" \in n /\ "[" \notin n)

\* urlparse(link).scheme, "" when the link has none
Scheme(url) == IF HasScheme(url) THEN url[1] ELSE ""

(* ------------------------------- pathlib ------------------------------- *)

\* Path.parent
Parent(p) == IF p = <<>> THEN <<>> ELSE SubSeq(p, 1, Len(p) - 1)

IsAbsolute(url) == url # <<>> /\ url[1] \in {"/", "//"}

RECURSIVE Parts(_)
\* the components of a path string: separators and "." are dropped
Parts(url) ==
    IF url = <<>> THEN <<>>
    ELSE IF url[1] \in {"/", "//", "."} THEN Parts(Tail(url))
    ELSE <<url[1]>> \o Parts(Tail(url))

\* Path.joinpath: an absolute argument replaces the base
JoinPath(base, url) == IF IsAbsolute(url) THEN Parts(url) ELSE base \o Parts(url)

RECURSIVE Normalise(_, _)
Normalise(done, todo) ==
    IF todo = <<>> THEN done
    ELSE IF todo[1] = ".." THEN Normalise(Parent(done), Tail(todo))
    ELSE Normalise(Append(done, todo[1]), Tail(todo))

\* Path.resolve
Resolve(p) == Normalise(<<>>, p)

IsPrefix(p, q) == Len(p) <= Len(q) /\ SubSeq(q, 1, Len(p)) = p

\* Path.exists on the file system F (a set of file paths): a file of F or a
\* directory leading to one
Exists(F, p) == \E q \in F : IsPrefix(p, q)

\* Path.is_file on the file system F
IsFile(F, p) == p \in F

\* Path.suffix == ".md"
IsMd(p) == p # <<>> /\ p[Len(p)] \in {"b.md", "d.md"}

(* -------------------------------- state -------------------------------- *)

VARIABLES
    paths,        \* args.paths
    recursive,    \* args.recursive
    content,      \* each document's a[@href] and img[@src] values, in document order
    fs,           \* the files on disk other than the documents
    pcMain,       \* where main_async is
    loop,         \* the event loop of asyncio.run
    files,        \* files_to_check
    exTask,       \* the extract_links_from_file task of each file
    exResult,     \* the set of links each finished extraction returned
    links,        \* the dict extract_links returned, in insertion order
    pcCheck,      \* where check_links is
    session,      \* the ClientSession of check_links
    nSessions,    \* how many ClientSessions have been created
    chkTask,      \* the check_single_link task of each key
    started,      \* how many check tasks have run their first step
    waiters,      \* the tasks waiting for a connection of the pool, in order
    response,     \* what the network answered to each task's request
    gets,         \* how many GET requests each task has issued
    fsLog,        \* the paths each task has asked the file system about
    chkResult,    \* the LinkCheckResult each finished task returned
    results,      \* the list check_links returned
    printed,      \* the lines main_async has printed
    exitCode,     \* the value main_async returned
    pool          \* the connection pool under many requests: how many tasks
                  \* are created, wait, hold a connection and have ended

vars == <<paths, recursive, content, fs, pcMain, loop, files, exTask, exResult,
          links, pcCheck, session, nSessions, chkTask, started, waiters, response, gets,
          fsLog, chkResult, results, printed, exitCode, pool>>

\* what no step of a run changes: its inputs, and the counters that only
\* the specification of the pool uses
inputVars == <<paths, recursive, content, fs, pool>>

extractVars == <<exTask, exResult>>

checkVars == <<pcCheck, session, nSessions, chkTask, started, waiters, response, gets,
               fsLog, chkResult, results>>

\* Python's None where an int is expected
None == -1

DirA == <<"a">>

\* what a command line argument may name
PathArgs == {DocB, DirA, FileA}

NoPool == [phase |-> "idle", created |-> 0, waiting |-> 0, acquired |-> 0, ended |-> 0]

\* every file on disk
Disk == fs \cup Docs

\* the number of a[@href] and img[@src] nodes over all the documents
TotalRefs(c) == Len(c[DocB].href) + Len(c[DocB].src) + Len(c[DocD].href) + Len(c[DocD].src)

\* the documents whose every a[@href] value is of H and img[@src] value of
\* Srcs
Contents(H) ==
    {c \in [Docs -> [href : SeqsUpTo(H, MaxRefs), src : SeqsUpTo(Srcs, MaxRefs)]] :
        TotalRefs(c) <= MaxRefs}

\* main_async has not started
Idle ==
    /\ pcMain = "start"
    /\ loop = "running"
    /\ files = <<>>
    /\ exTask = <<>>
    /\ exResult = <<>>
    /\ links = <<>>
    /\ pcCheck = "idle"
    /\ session = "none"
    /\ nSessions = 0
    /\ chkTask = <<>>
    /\ started = 0
    /\ waiters = <<>>
    /\ response = <<>>
    /\ gets = <<>>
    /\ fsLog = <<>>
    /\ chkResult = <<>>
    /\ results = <<>>
    /\ printed = <<>>
    /\ exitCode = None
    /\ pool = NoPool

Init ==
    /\ paths \in {p \in SeqsUpTo(PathArgs, MaxPaths) : Len(p) >= 1}
    /\ recursive \in BOOLEAN
    /\ content \in Contents(Hrefs)
    /\ fs \in SUBSET Candidates
    /\ Idle

(* --------------------------- cli.find_md_files ------------------------- *)

\* path.glob("*.md") or path.rglob("*.md"), kept when is_file()
Globbed(F, path, rec) ==
    {p \in F : /\ IsMd(p)
               /\ IsPrefix(path, p)
               /\ p # path
               /\ (rec \/ Parent(p) = path)}

\* the lists find_md_files can return: a directory is listed in any order
find_md_files(F, path, rec) ==
    IF IsFile(F, path)
    THEN {IF IsMd(path) THEN <<path>> ELSE <<>>}
    ELSE SetOrders(Globbed(F, path, rec))

RECURSIVE FilesToCheck(_, _, _)
\* [p for path in args.paths for p in find_md_files(Path(path), args.recursive)]
FilesToCheck(F, ps, rec) ==
    IF ps = <<>> THEN {<<>>}
    ELSE {a \o b : a \in find_md_files(F, ps[1], rec),
                   b \in FilesToCheck(F, Tail(ps), rec)}

(* ------------------------- checker.extract_links ----------------------- *)

\* the merge that starts the dict anew for a link it does not hold
AddLinkReset(d, link, file) ==
    IF \E i \in 1..Len(d) : d[i].link = link
    THEN [i \in 1..Len(d) |->
            IF d[i].link = link
            THEN [d[i] EXCEPT !.sources = Append(@, file)]
            ELSE d[i]]
    ELSE <<[link |-> link, sources |-> <<file>>]>>

\* the merge that lists a file once per link
AddLinkOnce(d, link, file) ==
    IF \E i \in 1..Len(d) : d[i].link = link
    THEN [i \in 1..Len(d) |->
            IF d[i].link = link /\ file \notin Range(d[i].sources)
            THEN [d[i] EXCEPT !.sources = Append(@, file)]
            ELSE d[i]]
    ELSE Append(d, [link |-> link, sources |-> <<file>>])

\* links[link].append(file), the entry created when absent
AddLink(d, link, file) ==
    IF \E i \in 1..Len(d) : d[i].link = link
    THEN [i \in 1..Len(d) |->
            IF d[i].link = link
            THEN [d[i] EXCEPT !.sources = Append(@, file)]
            ELSE d[i]]
    ELSE Append(d, [link |-> link, sources |-> <<file>>])

RECURSIVE MergeFile(_, _, _)
\* for link in file_links: ... with file_links iterated in the order given
MergeFile(d, file, order) ==
    IF order = <<>> THEN d
    ELSE MergeFile(AddLink(d, order[1], file), file, Tail(order))

RECURSIVE MergeFrom(_, _, _, _)
\* for file, file_links in results: ... from the i-th result on; a set is
\* iterated in an order the code does not choose
MergeFrom(d, fl, res, i) ==
    IF i > Len(fl) THEN {d}
    ELSE UNION {MergeFrom(MergeFile(d, fl[i], o), fl, res, i + 1) : o \in SetOrders(res[i])}

\* the merge of the results from the last one to the first
MergeReversed(fl, res) ==
    MergeFrom(<<>>, [i \in 1..Len(fl) |-> fl[Len(fl) + 1 - i]],
              [i \in 1..Len(res) |-> res[Len(res) + 1 - i]], 1)

\* the dicts extract_links can return from the gathered results
Merge(fl, res) == MergeFrom(<<>>, fl, res, 1)

\* the keys of a dict
Keys(d) == {d[i].link : i \in 1..Len(d)}

\* for a in document.findall(".//a[@href]"): links.add(a.attrib["href"])
CollectHrefs(c) == Range(c.href)

\* extract_links_from_file after the read: the href values are collected,
\* img.attrib["src"].text raises AttributeError for the first img[@src]
ExtractOutcome(c) ==
    IF c.src # <<>> THEN [status |-> "AttributeError", links |-> {}]
    ELSE [status |-> "returned", links |-> CollectHrefs(c)]

(* ---------------------------- LinkCheckResult -------------------------- *)

\* the reason string of a LinkCheckResult: its fixed text and what is
\* formatted into it
Reason(kind, path, code, text) ==
    [kind |-> kind, path |-> path, code |-> code, text |-> text]

LinkCheckResult(original, is_ok, reason) ==
    [original |-> original, is_ok |-> is_ok, reason |-> reason]

\* the result slot of a task that has returned nothing
NoResult == LinkCheckResult(<<>>, FALSE, Reason("none", <<>>, 0, ""))

(* ------------------------- checker.check_local_link -------------------- *)

FilePrefix == <<"file", ":", "//">>

\* if url.startswith("file://"): url = url[len("file://"):]
StripFile(url) == IF StartsWith(url, FilePrefix) THEN Drop(url, Len(FilePrefix)) ELSE url

\* source.parent.joinpath(url).resolve()
CompleteUrl(source, url) == Resolve(JoinPath(Parent(source), url))

RECURSIVE LocalLoop(_, _, _, _)
\* for source in sources: ..., with the paths asked about so far
LocalLoop(F, url, sources, asked) ==
    IF sources = <<>>
    THEN [result |-> LinkCheckResult(url, TRUE, Reason("File exists", <<>>, 0, "")),
          asked |-> asked]
    ELSE LET complete_url == CompleteUrl(sources[1], url)
         IN  IF ~Exists(F, complete_url)
             THEN [result |-> LinkCheckResult(url, FALSE,
                                  Reason("File not found: ", complete_url, 0, "")),
                   asked |-> Append(asked, complete_url)]
             ELSE LocalLoop(F, url, Tail(sources), Append(asked, complete_url))

\* the check against the first owning document only
check_local_link_first(F, url, sources) ==
    LocalLoop(F, StripFile(url), SubSeq(sources, 1, 1), <<>>)

check_local_link(F, url, sources) == LocalLoop(F, StripFile(url), sources, <<>>)

(* ------------------------- checker.check_http_link --------------------- *)

\* what the network can answer to a GET: a final status once the redirects
\* are followed, or a failure of the transport
Statuses == {200, 304, 404}

Failures == {"refused", "tls", "dns", "timeout"}

Outcomes == [kind : {"status"}, code : Statuses, failure : {""}]
            \cup [kind : {"failure"}, code : {0}, failure : Failures]

NoResponse == [kind |-> "none", code |-> 0, failure |-> ""]

\* raising for the server errors only
RaisesForStatus5xx(code) == code >= 500

\* ClientResponse.raise_for_status raises ClientResponseError when the
\* status is 400 or more
RaisesForStatus(code) == code >= 400

\* the exception a request ends with, "" when it ends with a response
ExceptionOf(o) ==
    IF o.kind = "status"
    THEN IF RaisesForStatus(o.code) THEN "ClientResponseError" ELSE ""
    ELSE CASE o.failure = "refused" -> "ClientConnectorError"
           [] o.failure = "tls" -> "ClientConnectorSSLError"
           [] o.failure = "dns" -> "ClientConnectorDNSError"
           [] o.failure = "timeout" -> "TimeoutError"

\* except ClientResponseError: alone
CaughtStatusOnly == {"ClientResponseError"}

\* the subclasses of ClientError among them, and ClientConnectorDNSError
Caught == {"ClientResponseError", "ClientConnectorError", "ClientConnectorSSLError",
           "ClientConnectorDNSError"}

\* check_http_link once the request has ended with o: a result, or the
\* exception that is not caught
check_http_link(url, o) ==
    LET e == ExceptionOf(o)
    IN  IF e = ""
        THEN [status |-> "done",
              result |-> LinkCheckResult(url, TRUE, Reason("Status: ", <<>>, o.code, ""))]
        ELSE IF e \in Caught
        THEN [status |-> "done",
              result |-> LinkCheckResult(url, FALSE, Reason("Error: ", <<>>, o.code, e))]
        ELSE [status |-> e, result |-> NoResult]

(* ------------------------ checker.check_single_link -------------------- *)

\* the branch check_single_link takes
Route(link) ==
    IF UrlparseRaises(link) THEN "ValueError"
    ELSE IF Scheme(link) \in {"http", "https"} THEN "http"
    ELSE IF Scheme(link) = "" \/ Scheme(link) = "file" THEN "local"
    ELSE "unsupported"

Unsupported(link) ==
    LinkCheckResult(link, FALSE, Reason("Unsupported scheme: ", <<>>, 0, Scheme(link)))

(* ------------------------------- actions ------------------------------- *)

\* a sequence of n copies of x
Fill(n, x) == [i \in 1..n |-> x]

\* the states in which a task has ended
ExEnded == {"returned", "OSError", "AttributeError", "cancelled"}

ChkEnded == {"done", "ValueError", "TimeoutError", "cancelled"}

ChkRaised == {"ValueError", "TimeoutError"}

AvailableUnlimited(acquired) == TRUE

\* TCPConnector(limit=50): a request gets a connection while fewer than
\* limit are held, and waits otherwise
Available(acquired) == acquired < limit

\* len(connector._acquired): the requests that hold a connection
Acquired == Cardinality({i \in 1..Len(chkTask) : chkTask[i] = "inflight"})

\* a list that is never taken for empty
NoFilesNever(fl) == FALSE

\* if not files_to_check:
NoFiles(fl) == fl = <<>>

\* main_async up to the await of extract_links' gather: the files are
\* found, then either nothing is to do or one extraction task per file is
\* created, each running up to its read
MainStart ==
    /\ pcMain = "start"
    /\ \E fl \in FilesToCheck(Disk, paths, recursive) :
        /\ files' = fl
        /\ IF NoFiles(fl)
           THEN /\ printed' = <<"No Markdown files found">>
                /\ exitCode' = 0
                /\ pcMain' = "done"
                /\ UNCHANGED extractVars
           ELSE /\ pcMain' = "extract"
                /\ exTask' = Fill(Len(fl), "reading")
                /\ exResult' = Fill(Len(fl), {})
                /\ UNCHANGED <<printed, exitCode>>
    /\ UNCHANGED <<inputVars, loop, links, checkVars>>

\* extract_links_from_file from the end of the read on: the read fails, or
\* the text is rendered, parsed and searched
ExtractFinish(i) ==
    /\ loop = "running"
    /\ exTask[i] = "reading"
    /\ \E readOk \in BOOLEAN :
        LET out == IF readOk THEN ExtractOutcome(content[files[i]])
                   ELSE [status |-> "OSError", links |-> {}]
        IN  /\ exTask' = [exTask EXCEPT ![i] = out.status]
            /\ exResult' = [exResult EXCEPT ![i] = out.links]
    /\ UNCHANGED <<inputVars, pcMain, loop, files, links, checkVars, printed, exitCode>>

\* the merge that does not wait for gather
ExtractMergeEarly ==
    /\ pcMain = "extract"
    /\ \E d \in Merge(files, exResult) : links' = d
    /\ pcMain' = "merged"
    /\ UNCHANGED <<inputVars, loop, files, extractVars, checkVars, printed, exitCode>>

\* extract_links after gather: the merge
ExtractMerge ==
    /\ pcMain = "extract"
    /\ \A i \in 1..Len(exTask) : exTask[i] = "returned"
    /\ \E d \in Merge(files, exResult) : links' = d
    /\ pcMain' = "merged"
    /\ UNCHANGED <<inputVars, loop, files, extractVars, checkVars, printed, exitCode>>

\* gather hands the first exception to extract_links, which main_async
\* does not catch
ExtractRaise ==
    /\ pcMain = "extract"
    /\ \E i \in 1..Len(exTask) : exTask[i] \in {"OSError", "AttributeError"}
    /\ pcMain' = "raised"
    /\ UNCHANGED <<inputVars, loop, files, extractVars, links, checkVars, printed, exitCode>>

\* check_links up to the await of gather: the session is created and one
\* task per item of the dict
CheckLinksEnter ==
    /\ pcMain = "merged"
    /\ pcCheck' = "gather"
    /\ session' = "open"
    /\ nSessions' = nSessions + 1
    /\ chkTask' = Fill(Len(links), "created")
    /\ response' = Fill(Len(links), NoResponse)
    /\ gets' = Fill(Len(links), 0)
    /\ fsLog' = Fill(Len(links), <<>>)
    /\ chkResult' = Fill(Len(links), NoResult)
    /\ pcMain' = "check"
    /\ UNCHANGED <<inputVars, loop, files, extractVars, links, started, waiters,
                   results, printed, exitCode>>

\* the first step of the next check_single_link task, in creation order:
\* to its end unless it has to wait for the network
StartTask ==
    /\ loop = "running"
    /\ started < Len(chkTask)
    /\ LET i == started + 1
           link == links[i].link
           route == Route(link)
           local == check_local_link(Disk, link, links[i].sources)
       IN  /\ started' = i
           /\ chkTask' = [chkTask EXCEPT ![i] =
                            CASE route = "ValueError" -> "ValueError"
                              [] route = "http" ->
                                    IF Available(Acquired) THEN "inflight" ELSE "waiting"
                              [] OTHER -> "done"]
           /\ waiters' = IF route = "http" /\ ~Available(Acquired)
                         THEN Append(waiters, i) ELSE waiters
           /\ gets' = IF route = "http" /\ Available(Acquired)
                      THEN [gets EXCEPT ![i] = @ + 1] ELSE gets
           /\ fsLog' = IF route = "local"
                       THEN [fsLog EXCEPT ![i] = local.asked] ELSE fsLog
           /\ chkResult' = CASE route = "local" -> [chkResult EXCEPT ![i] = local.result]
                             [] route = "unsupported" ->
                                    [chkResult EXCEPT ![i] = Unsupported(link)]
                             [] OTHER -> chkResult
    /\ UNCHANGED <<inputVars, pcMain, loop, files, extractVars, links, pcCheck,
                   session, nSessions, response, results, printed, exitCode>>

\* the request of task i ends with o, and is issued once more after a
\* first failure of the transport
HttpRespondRetry(i, o) ==
    /\ loop = "running"
    /\ chkTask[i] = "inflight"
    /\ IF o.kind = "failure" /\ gets[i] < 2
       THEN /\ gets' = [gets EXCEPT ![i] = @ + 1]
            /\ UNCHANGED <<response, chkResult, chkTask, waiters>>
       ELSE LET out == check_http_link(links[i].link, o)
                wake == waiters # <<>>
            IN  /\ response' = [response EXCEPT ![i] = o]
                /\ chkResult' = [chkResult EXCEPT ![i] = out.result]
                /\ chkTask' = IF wake
                              THEN [chkTask EXCEPT ![i] = out.status,
                                                   ![Head(waiters)] = "inflight"]
                              ELSE [chkTask EXCEPT ![i] = out.status]
                /\ gets' = IF wake THEN [gets EXCEPT ![Head(waiters)] = @ + 1] ELSE gets
                /\ waiters' = IF wake THEN Tail(waiters) ELSE waiters
    /\ UNCHANGED <<inputVars, pcMain, loop, files, extractVars, links, pcCheck,
                   session, nSessions, started, fsLog, results, printed, exitCode>>

\* the request of task i ends with o: check_http_link returns or raises,
\* the connection goes back to the pool and to the first waiter
HttpRespond(i, o) ==
    /\ loop = "running"
    /\ chkTask[i] = "inflight"
    /\ LET out == check_http_link(links[i].link, o)
           wake == waiters # <<>>
       IN  /\ response' = [response EXCEPT ![i] = o]
           /\ chkResult' = [chkResult EXCEPT ![i] = out.result]
           /\ chkTask' = IF wake
                         THEN [chkTask EXCEPT ![i] = out.status, ![Head(waiters)] = "inflight"]
                         ELSE [chkTask EXCEPT ![i] = out.status]
           /\ gets' = IF wake THEN [gets EXCEPT ![Head(waiters)] = @ + 1] ELSE gets
           /\ waiters' = IF wake THEN Tail(waiters) ELSE waiters
    /\ UNCHANGED <<inputVars, pcMain, loop, files, extractVars, links, pcCheck,
                   session, nSessions, started, fsLog, results, printed, exitCode>>

\* check_links returning what there is once every task has ended
CheckLinksReturnPartial ==
    /\ pcMain = "check"
    /\ started = Len(chkTask)
    /\ \A i \in 1..Len(chkTask) : chkTask[i] \in {"done", "ValueError", "TimeoutError"}
    /\ results' = chkResult
    /\ session' = "closed"
    /\ pcCheck' = "returned"
    /\ pcMain' = "report"
    /\ UNCHANGED <<inputVars, loop, files, extractVars, links, nSessions, chkTask,
                   started, waiters, response, gets, fsLog, chkResult, printed, exitCode>>

\* check_links after gather: every task has returned, the session is
\* closed and the results are returned in the order of the tasks
CheckLinksReturn ==
    /\ pcMain = "check"
    /\ started = Len(chkTask)
    /\ \A i \in 1..Len(chkTask) : chkTask[i] = "done"
    /\ results' = chkResult
    /\ session' = "closed"
    /\ pcCheck' = "returned"
    /\ pcMain' = "report"
    /\ UNCHANGED <<inputVars, loop, files, extractVars, links, nSessions, chkTask,
                   started, waiters, response, gets, fsLog, chkResult, printed, exitCode>>

\* check_links raising without the async with: the session stays open
CheckLinksRaiseLeak ==
    /\ pcMain = "check"
    /\ started = Len(chkTask)
    /\ \E i \in 1..Len(chkTask) : chkTask[i] \in ChkRaised
    /\ pcCheck' = "raised"
    /\ pcMain' = "raised"
    /\ UNCHANGED <<inputVars, loop, files, extractVars, links, session, nSessions,
                   chkTask, started, waiters, response, gets, fsLog, chkResult,
                   results, printed, exitCode>>

\* gather hands the first exception of a task to check_links: the session
\* is closed on the way out and main_async does not catch the exception
CheckLinksRaise ==
    /\ pcMain = "check"
    /\ started = Len(chkTask)
    /\ \E i \in 1..Len(chkTask) : chkTask[i] \in ChkRaised
    /\ session' = "closed"
    /\ pcCheck' = "raised"
    /\ pcMain' = "raised"
    /\ UNCHANGED <<inputVars, loop, files, extractVars, links, nSessions, chkTask,
                   started, waiters, response, gets, fsLog, chkResult, results,
                   printed, exitCode>>

\* every result taken for a broken one
BrokenAll(rs) == rs

\* [r for r in results if not r.is_ok]
Broken(rs) == SelectSeq(rs, LAMBDA r : ~r.is_ok)

\* main_async from the results on
MainReport ==
    /\ pcMain = "report"
    /\ LET broken == Broken(results)
           n_broken == Len(broken)
       IN  IF n_broken > 0
           THEN /\ printed' = <<"broken links found", n_broken>>
                               \o [k \in 1..n_broken |->
                                     <<broken[k].original, broken[k].reason>>]
                /\ exitCode' = 1
           ELSE /\ printed' = <<"All links are good">>
                /\ exitCode' = 0
    /\ pcMain' = "done"
    /\ UNCHANGED <<inputVars, loop, files, extractVars, links, checkVars>>

\* asyncio.run once main_async has ended: the tasks still pending are
\* cancelled and the loop is closed
LoopClose ==
    /\ pcMain \in {"done", "raised"}
    /\ loop = "running"
    /\ loop' = "closed"
    /\ exTask' = [i \in 1..Len(exTask) |->
                    IF exTask[i] \in ExEnded THEN exTask[i] ELSE "cancelled"]
    /\ chkTask' = [i \in 1..Len(chkTask) |->
                    IF chkTask[i] \in ChkEnded THEN chkTask[i] ELSE "cancelled"]
    /\ waiters' = <<>>
    /\ UNCHANGED <<inputVars, pcMain, files, exResult, links, pcCheck, session,
                   nSessions, started, response, gets, fsLog, chkResult, results, printed, exitCode>>

Next ==
    \/ MainStart
    \/ \E i \in 1..Len(exTask) : ExtractFinish(i)
    \/ ExtractMerge
    \/ ExtractRaise
    \/ CheckLinksEnter
    \/ StartTask
    \/ \E i \in 1..Len(chkTask) : \E o \in Outcomes : HttpRespond(i, o)
    \/ CheckLinksReturn
    \/ CheckLinksRaise
    \/ MainReport
    \/ LoopClose

Spec == Init /\ [][Next]_vars

(* ------------------------- the extraction phase ------------------------ *)
(* main_async up to the return of extract_links.  The extraction looks at  *)
(* no reference and at no file but the documents: the documents hold two   *)
(* references, which name the one file /a/img.png of /a/b.md in two ways,  *)
(* and every candidate file exists.                                        *)

ExtractHrefs == {RefRel, RefFile}

InitExtract ==
    /\ paths \in {p \in SeqsUpTo(PathArgs, MaxPaths) : Len(p) >= 1}
    /\ recursive \in BOOLEAN
    /\ content \in Contents(ExtractHrefs)
    /\ fs = Candidates
    /\ Idle

NextExtract ==
    \/ MainStart
    \/ \E i \in 1..Len(exTask) : ExtractFinish(i)
    \/ ExtractMerge
    \/ ExtractRaise
    \/ LoopClose

SpecExtract == InitExtract /\ [][NextExtract]_vars

(* ------------------------ the verification phase ----------------------- *)
(* check_links from the return of extract_links on: the command line      *)
(* names the files themselves, no document holds an img[@src] node and     *)
(* every read has succeeded, so that the dict is any dict a merge can      *)
(* give.  A document holds each of its references once: the dict does not  *)
(* depend on more.                                                         *)

\* the markup that holds the references of S once each
Once(S) == [href |-> CHOOSE o \in SetOrders(S) : TRUE, src |-> <<>>]

InitCheck ==
    /\ files \in {f \in SeqsUpTo(Docs, MaxPaths) : Len(f) >= 1}
    /\ paths = files
    /\ recursive = FALSE
    /\ \E held \in [Docs -> {S \in SUBSET Hrefs : Cardinality(S) <= MaxRefs}] :
          /\ content = [d \in Docs |-> Once(held[d])]
          /\ TotalRefs(content) <= MaxRefs
          /\ \A d \in Docs \ Range(files) : held[d] = {}
    /\ fs \in SUBSET Candidates
    /\ pcMain = "merged"
    /\ loop = "running"
    /\ exTask = Fill(Len(files), "returned")
    /\ exResult = [i \in 1..Len(files) |-> CollectHrefs(content[files[i]])]
    /\ links \in Merge(files, exResult)
    /\ pcCheck = "idle"
    /\ session = "none"
    /\ nSessions = 0
    /\ chkTask = <<>>
    /\ started = 0
    /\ waiters = <<>>
    /\ response = <<>>
    /\ gets = <<>>
    /\ fsLog = <<>>
    /\ chkResult = <<>>
    /\ results = <<>>
    /\ printed = <<>>
    /\ exitCode = None
    /\ pool = NoPool

NextCheck ==
    \/ CheckLinksEnter
    \/ StartTask
    \/ \E i \in 1..Len(chkTask) : \E o \in Outcomes : HttpRespond(i, o)
    \/ CheckLinksReturn
    \/ CheckLinksRaise

SpecCheck == InitCheck /\ [][NextCheck]_vars

(* ------------------------------ a whole run ---------------------------- *)
(* main from the command line to the exit of asyncio.run.  The command     *)
(* line names files: documents, and a file that is no document.  The       *)
(* documents hold two remote references, a local one and one that         *)
(* urlparse refuses, each at most once in a document, and every candidate  *)
(* file                                                                    *)
(* exists or none does.  A document the command line does not name is not  *)
(* read, and holds nothing.                                                *)

RunHrefs == {RefHttp, RefHttps, RefRel, RefBad}

RunArgs == {DocB, DocD, FileA}

InitRun ==
    /\ paths \in {p \in SeqsUpTo(RunArgs, MaxPaths) : Len(p) >= 1}
    /\ recursive = FALSE
    /\ content \in {c \in Contents(RunHrefs) :
                       \A d \in Docs : c[d].href = Once(Range(c[d].href)).href}
    /\ \A d \in Docs \ Range(paths) : content[d] = [href |-> <<>>, src |-> <<>>]
    /\ fs \in {{}, Candidates}
    /\ Idle

SpecRun == InitRun /\ [][Next]_vars

(* ------------------- the connection pool under load -------------------- *)
(* check_links over a dict of NumRemote http references, more than the    *)
(* pool has connections.  The tasks differ in nothing the pool looks at,   *)
(* so the state counts them: created, waiting for a connection, holding    *)
(* one, ended.                                                             *)

runVars == <<paths, recursive, content, fs, pcMain, loop, files, exTask, exResult,
             links, pcCheck, session, nSessions, chkTask, started, waiters, response,
             gets, fsLog, chkResult, results, printed, exitCode>>

InitPool ==
    /\ paths = <<DocB>>
    /\ recursive = FALSE
    /\ content = [d \in Docs |-> [href |-> <<>>, src |-> <<>>]]
    /\ fs = {}
    /\ pcMain = "merged"
    /\ loop = "running"
    /\ files = <<DocB>>
    /\ exTask = <<"returned">>
    /\ exResult = <<{}>>
    /\ links = <<>>
    /\ pcCheck = "idle"
    /\ session = "none"
    /\ nSessions = 0
    /\ chkTask = <<>>
    /\ started = 0
    /\ waiters = <<>>
    /\ response = <<>>
    /\ gets = <<>>
    /\ fsLog = <<>>
    /\ chkResult = <<>>
    /\ results = <<>>
    /\ printed = <<>>
    /\ exitCode = None
    /\ pool = NoPool

\* check_links up to the await of gather: the session and the tasks
PoolEnter ==
    /\ pool.phase = "idle"
    /\ pool' = [pool EXCEPT !.phase = "open", !.created = NumRemote]
    /\ UNCHANGED runVars

\* the first step of a check_http_link task: session.get takes a connection
\* or waits for one
PoolStart ==
    /\ pool.phase = "open"
    /\ pool.created > 0
    /\ pool' = IF Available(pool.acquired)
               THEN [pool EXCEPT !.created = @ - 1, !.acquired = @ + 1]
               ELSE [pool EXCEPT !.created = @ - 1, !.waiting = @ + 1]
    /\ UNCHANGED runVars

\* a request ends: its connection goes back to the pool and to a waiter
PoolRespond ==
    /\ pool.phase = "open"
    /\ pool.acquired > 0
    /\ pool' = IF pool.waiting > 0
               THEN [pool EXCEPT !.ended = @ + 1, !.waiting = @ - 1]
               ELSE [pool EXCEPT !.ended = @ + 1, !.acquired = @ - 1]
    /\ UNCHANGED runVars

\* check_links after gather: the session is closed
PoolExit ==
    /\ pool.phase = "open"
    /\ pool.ended = NumRemote
    /\ pool' = [pool EXCEPT !.phase = "closed"]
    /\ UNCHANGED runVars

NextPool == PoolEnter \/ PoolStart \/ PoolRespond \/ PoolExit

SpecPool == InitPool /\ [][NextPool]_vars

(* ------------------------------- claims -------------------------------- *)

\* the i-th file was read and its extraction ran to its end
Extracted(i) == exTask[i] \in {"returned", "AttributeError"}

\* the reference values of the markup of a document
Markup(doc) == Range(content[doc].href) \cup Range(content[doc].src)

\* the number of places of the sequence s that hold x
Count(s, x) == Cardinality({i \in 1..Len(s) : s[i] = x})

\* C1: when extract_links returns, the keys of the dict are exactly the
\* references of the sets extracted from the files, each reference one key,
\* in whatever order the extraction tasks ended.
C1_KeysAreUnion ==
    pcMain = "merged" =>
        /\ Keys(links) = UNION {exResult[i] : i \in 1..Len(files)}
        /\ Keys(links) = UNION {Range(content[files[i]].href) : i \in 1..Len(files)}
        /\ \A i, j \in 1..Len(links) : links[i].link = links[j].link => i = j

\* C1: two different documents were merged into two keys
C1_Witness ==
    /\ pcMain = "merged"
    /\ Len(files) >= 2
    /\ files[1] # files[2]
    /\ exResult[1] # {} /\ exResult[2] # {} /\ exResult[1] # exResult[2]
    /\ Len(links) = 2

\* C2 as stated: when check_links returns, there is one result per key, the
\* reference of every result is a key, and every key is the reference of
\* exactly one result.
C2_ResultsAreKeys ==
    pcCheck = "returned" =>
        /\ Len(results) = Len(links)
        /\ \A i \in 1..Len(results) : results[i].original \in Keys(links)
        /\ \A k \in Keys(links) :
              Cardinality({i \in 1..Len(results) : results[i].original = k}) = 1

\* C3 as stated: the list of a reference holds exactly the documents whose
\* markup holds the reference, each document at most once.
C3_OwnersOnce ==
    pcMain = "merged" =>
        \A k \in 1..Len(links) :
            /\ Range(links[k].sources) =
                  {files[i] : i \in {j \in 1..Len(files) : links[k].link \in Markup(files[j])}}
            /\ \A doc \in Docs : Count(links[k].sources, doc) <= 1

\* C3 amended: the list of a reference holds exactly the documents of the
\* input list whose markup holds the reference, each as many times as the
\* input list names it, however many times the markup holds the reference.
C3_OwnersPerInput ==
    pcMain = "merged" =>
        \A k \in 1..Len(links) :
            \A doc \in Docs :
                Count(links[k].sources, doc) =
                    IF links[k].link \in Markup(doc) THEN Count(files, doc) ELSE 0

\* C3: a reference that occurs twice in the markup of a document has been
\* merged from an input list that names the document twice
C3_Witness ==
    /\ pcMain = "merged"
    /\ \E k \in 1..Len(links) :
          \E doc \in Docs :
              /\ Count(content[doc].href, links[k].link) = 2
              /\ Count(files, doc) = 2
              /\ links[k].sources = <<doc, doc>>

\* C4 as stated: the extraction of a document that holds an img[@src] node
\* ends without error with the src value in the set of the document.
C4_ImgExtracted ==
    \A i \in 1..Len(exTask) :
        (Extracted(i) /\ content[files[i]].src # <<>>) =>
            /\ exTask[i] = "returned"
            /\ Range(content[files[i]].src) \subseteq exResult[i]

\* the check task of the i-th key has run its first step
Started(i) == i <= started

\* the path the i-th key names for its k-th owning document
Target(i, k) == CompleteUrl(links[i].sources[k], StripFile(links[i].link))

\* the owning documents of the i-th key for which the path does not exist
Missing(i) == {k \in 1..Len(links[i].sources) : ~Exists(Disk, Target(i, k))}

\* the least number of a non-empty set of numbers
Min(S) == CHOOSE x \in S : \A y \in S : x <= y

\* C5: a local check is ok exactly when the path exists for every owning
\* document; otherwise the file system is asked about the owners up to the
\* first one whose path does not exist and no further, and the reason names
\* that path.
C5_LocalConjunctive ==
    \A i \in 1..started :
        Route(links[i].link) = "local" =>
            LET missing == Missing(i)
            IN  /\ chkTask[i] = "done"
                /\ chkResult[i].is_ok <=> (missing = {})
                /\ missing = {} =>
                      fsLog[i] = [k \in 1..Len(links[i].sources) |-> Target(i, k)]
                /\ missing # {} =>
                      /\ fsLog[i] = [k \in 1..Min(missing) |-> Target(i, k)]
                      /\ chkResult[i].reason.kind = "File not found: "
                      /\ chkResult[i].reason.path = Target(i, Min(missing))

\* C5: a reference of two documents has been checked, its path exists for
\* the first document and not for the second one
C5_Witness ==
    \E i \in 1..Len(chkTask) :
        /\ Started(i)
        /\ Route(links[i].link) = "local"
        /\ Len(links[i].sources) = 2
        /\ Missing(i) = {2}
        /\ ~chkResult[i].is_ok

\* C6 as stated: a reference whose scheme is none of http, https, "" and
\* file gets the result (False, "Unsupported scheme: <scheme>"), no request
\* is issued and the file system is not asked for it, and its task raises
\* nothing.
C6_Unsupported ==
    \A i \in 1..Len(chkTask) :
        (Started(i) /\ Scheme(links[i].link) \notin {"http", "https", "", "file"}) =>
            /\ chkTask[i] = "done"
            /\ chkResult[i] = LinkCheckResult(links[i].link, FALSE,
                    Reason("Unsupported scheme: ", <<>>, 0, Scheme(links[i].link)))
            /\ gets[i] = 0
            /\ fsLog[i] = <<>>

\* the task of the i-th key has got the answer of the network
Answered(i) == response[i] # NoResponse

\* C7 as stated: a remote check is ok exactly when the final status is 2xx,
\* and then the reason reports the status.
C7_Only2xx ==
    \A i \in 1..Len(chkTask) :
        (Answered(i) /\ response[i].kind = "status") =>
            /\ chkResult[i].is_ok <=> (response[i].code >= 200 /\ response[i].code < 300)
            /\ chkResult[i].is_ok =>
                  chkResult[i].reason = Reason("Status: ", <<>>, response[i].code, "")

\* C7 amended: a remote check is ok only when the request ended with a
\* final status below 400, and then the reason reports the status; every
\* final status of 400 or more is not ok.
C7_Below400 ==
    \A i \in 1..Len(chkTask) :
        /\ (Route(links[i].link) = "http" /\ chkResult[i].is_ok) =>
              /\ response[i].kind = "status"
              /\ response[i].code < 400
              /\ chkResult[i].reason = Reason("Status: ", <<>>, response[i].code, "")
        /\ (Answered(i) /\ response[i].kind = "status" /\ response[i].code >= 400) =>
              /\ chkTask[i] = "done"
              /\ ~chkResult[i].is_ok

\* C7: one remote check ended with status 200 and another one with 404
C7_Witness ==
    \E i, j \in 1..Len(chkTask) :
        /\ response[i] = [kind |-> "status", code |-> 200, failure |-> ""]
        /\ chkResult[i].is_ok
        /\ response[j] = [kind |-> "status", code |-> 404, failure |-> ""]
        /\ ~chkResult[j].is_ok

\* the failures of the transport that C8 names, and the description of each
TransportError(o) ==
    CASE o.kind = "failure" /\ o.failure = "refused" -> "ClientConnectorError"
      [] o.kind = "failure" /\ o.failure = "tls" -> "ClientConnectorSSLError"
      [] o.kind = "failure" /\ o.failure = "dns" -> "ClientConnectorDNSError"
      [] o.kind = "status" /\ o.code >= 400 -> "ClientResponseError"
      [] OTHER -> ""

\* C8: a request that ends with a refused connection, a TLS failure, a DNS
\* failure or an error status gives a result that is not ok and whose
\* reason carries the error; its task raises nothing, so check_links does
\* not raise for it, and when check_links returns the result is in the list
\* with the results of the other references.
C8_TransportFailure ==
    /\ \A i \in 1..Len(chkTask) :
          LET e == TransportError(response[i])
          IN  e # "" =>
                /\ chkTask[i] = "done"
                /\ chkResult[i] = LinkCheckResult(links[i].link, FALSE,
                        Reason("Error: ", <<>>, response[i].code, e))
                /\ pcCheck = "returned" =>
                      /\ Len(results) = Len(links)
                      /\ results[i] = chkResult[i]
                      /\ \A j \in 1..Len(results) : results[j] # NoResult
    /\ pcCheck = "raised" =>
          \E i \in 1..Len(chkTask) :
              /\ chkTask[i] \in ChkRaised
              /\ TransportError(response[i]) = ""

\* C8: check_links has returned the result of a failed DNS resolution
\* beside the result of another reference
C8_Witness ==
    /\ pcCheck = "returned"
    /\ Len(results) = 2
    /\ \E i \in 1..2 :
          /\ response[i] = [kind |-> "failure", code |-> 0, failure |-> "dns"]
          /\ ~results[i].is_ok

\* C10: a check_links call creates one session, and when check_links has
\* returned or has raised the session is closed.
C10_SessionReleased ==
    /\ nSessions <= 1
    /\ pcCheck = "gather" => (session = "open" /\ nSessions = 1)
    /\ pcCheck \in {"returned", "raised"} => (session = "closed" /\ nSessions = 1)

\* C10: check_links has raised while a request of another task was in flight
C10_Witness ==
    /\ pcCheck = "raised"
    /\ \E i \in 1..Len(chkTask) : chkTask[i] = "inflight"

\* C9: the requests that hold a connection of the pool are never more than
\* its limit, however many requests there are; the others wait.
C9_PoolCap ==
    /\ pool.acquired <= limit
    /\ pool.phase = "open" =>
          pool.created + pool.waiting + pool.acquired + pool.ended = NumRemote
    /\ pool.waiting > 0 => pool.acquired = limit

\* C9: every connection of the pool is held and a request waits
C9_Witness == pool.acquired = limit /\ pool.waiting > 0

\* C11: when no Markdown file is found, main_async prints its message and
\* returns 0, and neither extract_links nor check_links is called: no
\* extraction task, no dict, no session and no check task exists; so the
\* two are never called for an empty list of files.
C11_NoEmptyCore ==
    (pcMain # "start" /\ files = <<>>) =>
        /\ pcMain = "done"
        /\ printed = <<"No Markdown files found">>
        /\ exitCode = 0
        /\ exTask = <<>>
        /\ links = <<>>
        /\ pcCheck = "idle"
        /\ nSessions = 0
        /\ chkTask = <<>>

\* C11: a run over a file that is no document has ended
C11_Witness ==
    /\ files = <<>>
    /\ pcMain = "done"
    /\ loop = "closed"
    /\ exitCode = 0

\* the places of the results that are not ok
NotOk == {i \in 1..Len(results) : ~results[i].is_ok}

\* the k-th of them, in the order of the results
NthNotOk(k) == CHOOSE i \in NotOk : Cardinality({j \in NotOk : j < i}) = k - 1

\* C12: when a run over some document has completed, the count printed is
\* the number of the results that are not ok, the lines printed after it
\* are the reference and the reason of exactly those results, in the order
\* of the results, and the exit status is 1 when there is such a result and
\* 0 when there is none.
C12_Report ==
    (pcMain = "done" /\ files # <<>>) =>
        LET n == Cardinality(NotOk)
        IN  /\ exitCode = (IF n > 0 THEN 1 ELSE 0)
            /\ n = 0 => (Len(printed) = 1 /\ printed[1] = "All links are good")
            /\ n > 0 =>
                  /\ Len(printed) = n + 2
                  /\ printed[1] = "broken links found"
                  /\ printed[2] = n
                  /\ \A k \in 1..n :
                        printed[k + 2] = <<results[NthNotOk(k)].original,
                                           results[NthNotOk(k)].reason>>

\* C12: a run has reported one broken reference out of two
C12_Witness ==
    /\ pcMain = "done"
    /\ Len(results) = 2
    /\ Cardinality(NotOk) = 1
    /\ exitCode = 1

\* the request of the i-th key ran into the total timeout of the session
TimedOut(i) == response[i] = [kind |-> "failure", code |-> 0, failure |-> "timeout"]

\* C13 as stated: a request that exceeds the total timeout gives a result
\* that is not ok, after one GET and no more, its task raises nothing, and
\* when check_links has ended it has returned one result per reference.
C13_TimeoutIsFailure ==
    \A i \in 1..Len(chkTask) :
        TimedOut(i) =>
            /\ chkTask[i] = "done"
            /\ chkResult[i] # NoResult
            /\ ~chkResult[i].is_ok
            /\ gets[i] = 1
            /\ pcCheck \in {"returned", "raised"} =>
                  (pcCheck = "returned" /\ Len(results) = Len(links))

\* check_links has been called
Verifying == pcCheck # "idle" \/ chkTask # <<>>

\* C14: whenever check_links has been called, every extraction task has
\* returned and extract_links has returned the dict; the only step that
\* writes the dict is taken before check_links is called, when every
\* extraction task has returned, and writes the whole merge of what they
\* returned; so once a check task exists no step changes the dict.
C14_PhaseSeparation ==
    /\ [](Verifying =>
            /\ Len(exTask) = Len(files)
            /\ \A i \in 1..Len(exTask) : exTask[i] = "returned"
            /\ pcMain \notin {"start", "extract", "merged"})
    /\ [][links' # links =>
            /\ ~Verifying
            /\ pcMain = "extract"
            /\ pcMain' = "merged"
            /\ \A i \in 1..Len(exTask) : exTask[i] = "returned"
            /\ links' \in Merge(files, exResult)]_vars

\* C14: the first check task has started on the dict of two documents
C14_Witness ==
    /\ pcCheck = "gather"
    /\ started >= 1
    /\ Len(files) = 2
    /\ files[1] # files[2]
    /\ Len(links) = 2

\* an extraction task has failed
ExtractionFailed == \E i \in 1..Len(exTask) : exTask[i] \in {"OSError", "AttributeError"}

\* a check task has raised
CheckFailed == \E i \in 1..Len(chkTask) : chkTask[i] \in ChkRaised

\* C15: once an extraction task has failed there is no dict, check_links is
\* not called and no check task exists; once a check task has raised,
\* check_links returns no list; main_async then reports nothing.  A list
\* that check_links returns holds the result of every task.
C15_FailFast ==
    /\ ExtractionFailed =>
          /\ links = <<>>
          /\ ~Verifying
          /\ started = 0
          /\ pcMain \in {"extract", "raised"}
          /\ printed = <<>> /\ exitCode = None
    /\ CheckFailed =>
          /\ results = <<>>
          /\ pcCheck \in {"gather", "raised"}
          /\ pcMain \in {"check", "raised"}
          /\ printed = <<>> /\ exitCode = None
    /\ pcCheck = "returned" =>
          /\ Len(results) = Len(links)
          /\ \A j \in 1..Len(results) :
                chkTask[j] = "done" /\ results[j] = chkResult[j] /\ results[j] # NoResult

\* C15: check_links has raised for one task after another task had
\* returned its result
C15_Witness ==
    /\ pcCheck = "raised"
    /\ loop = "closed"
    /\ \E i, j \in 1..Len(chkTask) :
          /\ chkTask[i] \in ChkRaised
          /\ chkTask[j] = "done"
          /\ chkResult[j] # NoResult

\* the check task of the i-th key has returned or raised
Ended(i) == chkTask[i] \in {"done", "ValueError", "TimeoutError"}

\* C16: check_links creates one task per key of the dict; a task issues at
\* most one GET, and only for a remote reference, whatever the request ends
\* with; and once a task has ended, its state, its result, its requests and
\* what it asked the file system never change again.
C16_SingleAttempt ==
    /\ [](pcCheck # "idle" =>
            /\ Len(chkTask) = Len(links)
            /\ Len(chkTask) = Cardinality(Keys(links))
            /\ \A i \in 1..Len(chkTask) :
                  /\ gets[i] <= 1
                  /\ gets[i] = 1 => Route(links[i].link) = "http"
                  /\ Answered(i) => gets[i] = 1
                  /\ Len(fsLog[i]) <= Len(links[i].sources))
    /\ [][\A i \in 1..Len(chkTask) :
              Ended(i) =>
                  /\ chkTask'[i] = chkTask[i]
                  /\ chkResult'[i] = chkResult[i]
                  /\ gets'[i] = gets[i]
                  /\ response'[i] = response[i]
                  /\ fsLog'[i] = fsLog[i]]_vars

\* C16: check_links has returned the results of two references, one of
\* them remote and failed after its one GET
C16_Witness ==
    /\ pcCheck = "returned"
    /\ Len(results) = 2
    /\ \E i \in 1..2 :
          /\ response[i].kind = "failure"
          /\ gets[i] = 1
          /\ ~results[i].is_ok

\* C17 as stated: every reference whose task has started was handled by
\* exactly one route, chosen by its scheme: http and https by the remote
\* check, which asks the file system nothing; no scheme and file by the
\* local check, which issues no request; every other scheme by the
\* rejection, which does neither; and no task raises instead.
C17_Routing ==
    \A i \in 1..started :
        LET link == links[i].link
            scheme == Scheme(link)
        IN  /\ chkTask[i] # "ValueError"
            /\ scheme \in {"http", "https"} =>
                  /\ gets[i] = 1 \/ chkTask[i] = "waiting"
                  /\ fsLog[i] = <<>>
            /\ scheme \in {"", "file"} =>
                  /\ gets[i] = 0
                  /\ chkTask[i] = "done"
                  /\ chkResult[i] = check_local_link(Disk, link, links[i].sources).result
            /\ scheme \notin {"http", "https", "", "file"} =>
                  /\ gets[i] = 0
                  /\ fsLog[i] = <<>>
                  /\ chkTask[i] = "done"
                  /\ chkResult[i] = Unsupported(link)

\* C18 as stated: once extract_links has returned or raised, every
\* extraction task has ended; once check_links has returned or raised,
\* every check task has ended; and no request is in flight on, or waits
\* for, a session that is closed.
C18_NoOrphans ==
    /\ pcMain \notin {"start", "extract"} =>
          \A i \in 1..Len(exTask) : exTask[i] \in ExEnded
    /\ pcCheck \in {"returned", "raised"} =>
          \A i \in 1..Len(chkTask) : chkTask[i] \in ChkEnded
    /\ session = "closed" =>
          \A i \in 1..Len(chkTask) : chkTask[i] \notin {"inflight", "waiting"}

\* the files of the input list whose extraction gave the link, in the order
\* of the list
OwnersInOrder(link) ==
    LET holds == {i \in 1..Len(files) : link \in exResult[i]}
        nth(k) == CHOOSE i \in holds : Cardinality({j \in holds : j < i}) = k - 1
    IN  [k \in 1..Cardinality(holds) |-> files[nth(k)]]

\* the result the check of the i-th key gives, from the key, its documents,
\* the disk and what the network answered to its request
ResultOf(i) ==
    LET link == links[i].link
        route == Route(link)
    IN  CASE route = "http" -> check_http_link(link, response[i]).result
          [] route = "local" -> check_local_link(Disk, link, links[i].sources).result
          [] OTHER -> Unsupported(link)

\* C19: in whatever order the extraction tasks end, the documents of every
\* reference of the dict are in the order of the input list; and in
\* whatever order the check tasks end, the i-th result of the list that
\* check_links returns is the result of the check of the i-th key.
C19_OrderIndependent ==
    /\ pcMain \notin {"start", "extract", "raised"} =>
          \A k \in 1..Len(links) : links[k].sources = OwnersInOrder(links[k].link)
    /\ pcCheck = "returned" =>
          /\ Len(results) = Len(links)
          /\ \A i \in 1..Len(results) : results[i] = ResultOf(i)

\* C19: the dict is merged from two different documents, and the request
\* of its second key has ended while the request of its first key is in
\* flight
C19_Witness ==
    /\ Len(files) = 2
    /\ files[1] # files[2]
    /\ Len(chkTask) = 2
    /\ chkTask[1] = "inflight"
    /\ chkTask[2] = "done"
    /\ Answered(2)
    /\ links[1].sources # links[2].sources

====
